---- MODULE Spec2Model ----
(***************************************************************************)
(* Model of data_validation/config_manager.py: the ConfigManager class,    *)
(* its configuration document (a Python dict), the two table handles it    *)
(* binds at construction, its accessors and mutators, the factory and the  *)
(* two builders.                                                           *)
(*                                                                         *)
(* Python values are tagged records, so that None, an absent dict key, a   *)
(* string and a list stay distinct and comparable.  The dict is a function *)
(* from the consts.CONFIG_* key names to such values.                      *)
(***************************************************************************)
EXTENDS Integers, Sequences, FiniteSets, TLC

VARIABLES
    live,           \* TRUE once a ConfigManager instance exists
    config,         \* self._config
    source_client,  \* self.source_client
    target_client,  \* self.target_client
    source_table,   \* self.source_table
    target_table,   \* self.target_table
    result,         \* the last call: its name, arguments and outcome
    appended        \* history: what the append calls were given, in call order

vars == <<live, config, source_client, target_client, source_table,
          target_table, result, appended>>

----------------------------------------------------------------------------
(* Bounds of the model.                                                    *)

\* longest list handed to a builder or to an append
MaxReq == 2
\* cap on the total number of stored descriptors
MaxStored == 3

----------------------------------------------------------------------------
(* Python values.                                                          *)

None == [tag |-> "None"]
Absent == [tag |-> "absent"]
Str(s) == [tag |-> "str", v |-> s]
List(l) == [tag |-> "list", v |-> l]

Set(s) == [tag |-> "set", v |-> s]
PyInt(n) == [tag |-> "int", v |-> n]

\* Python truthiness of the values the model passes around
Truthy(x) == \/ x.tag = "str" /\ x.v # ""
             \/ x.tag = "list" /\ x.v # <<>>
             \/ x.tag = "set" /\ x.v # {}
             \/ x.tag = "int" /\ x.v # 0

\* the outcome of a call: a returned value or a raised exception
Ok(v) == [raised |-> FALSE, value |-> v, exc |-> None]
Raise(e) == [raised |-> TRUE, value |-> None, exc |-> e]

KeyError(k) == [type |-> "KeyError", key |-> k]
NameError(n) == [type |-> "NameError", name |-> n]
ValueError(m) == [type |-> "ValueError", msg |-> m]

ConfigKeys == {"CONFIG_TYPE", "CONFIG_SOURCE_CONN", "CONFIG_TARGET_CONN",
               "CONFIG_SCHEMA_NAME", "CONFIG_TABLE_NAME",
               "CONFIG_TARGET_SCHEMA_NAME", "CONFIG_TARGET_TABLE_NAME",
               "CONFIG_AGGREGATES", "CONFIG_GROUPED_COLUMNS", "CONFIG_LIMIT"}

\* dict.get(k): None when the key is absent
DictGet(d, k) == IF d[k] = Absent THEN None ELSE d[k]

\* d[k]: KeyError when the key is absent
DictIndex(d, k) == IF d[k] = Absent THEN Raise(KeyError(k)) ELSE Ok(d[k])

\* `a or b`, b being an outcome evaluated only when a is falsy
OrElse(a, b) == IF Truthy(a) THEN Ok(a) ELSE b

\* the sequences over S of length at most n
RECURSIVE SeqsUpTo(_, _)
SeqsUpTo(S, n) ==
    IF n = 0 THEN {<<>>}
    ELSE LET shorter == SeqsUpTo(S, n - 1)
         IN  shorter \cup {Append(s, x) : s \in shorter, x \in S}

\* membership in a Python list
InList(x, l) == \E i \in 1..Len(l) : l[i] = x

----------------------------------------------------------------------------
(* The external schema-access collaborator: two databases, each resolving  *)
(* (table name, database) to a table handle with ordered columns and a     *)
(* type per column.  The two databases have drifted apart.                 *)

Clients == {"dbA", "dbB"}

Table(name, database, columns, types) ==
    [tag |-> "table", name |-> name, database |-> database,
     columns |-> columns, types |-> types]

Unbound == [tag |-> "unbound"]

ColumnTypes(client) ==
    IF client = "dbA"
    THEN [c \in {"a", "b", "c"} |->
            IF c = "b" THEN "string" ELSE "int64"]
    ELSE [c \in {"a", "b", "c"} |->
            IF c = "a" THEN "int64" ELSE "string"]

Catalog(client) ==
    IF client = "dbA"
    THEN [k \in {<<"s1", "t1">>, <<"s2", "t1">>, <<"s1", "t2">>, <<"s2", "t2">>} |->
            CASE k = <<"s1", "t1">> -> <<"a", "b", "c">>
              [] k = <<"s2", "t1">> -> <<"b", "a">>
              [] k = <<"s1", "t2">> -> <<"c", "a">>
              [] OTHER -> <<"c", "b", "a">>]
    ELSE [k \in {<<"s1", "t1">>, <<"s2", "t1">>, <<"s1", "t2">>} |->
            CASE k = <<"s1", "t1">> -> <<"a", "c">>
              [] k = <<"s2", "t1">> -> <<"c", "a">>
              [] OTHER -> <<"b">>]

\* client.table(name, database=database)
ClientTable(client, name, database) ==
    IF name.tag = "str" /\ database.tag = "str"
       /\ <<database.v, name.v>> \in DOMAIN Catalog(client)
    THEN Ok(Table(name.v, database.v, Catalog(client)[<<database.v, name.v>>],
                  ColumnTypes(client)))
    ELSE Raise([type |-> "TableNotFound", name |-> name, database |-> database])

----------------------------------------------------------------------------
(* Accessors, as functions of the document.                                *)

get_config(cfg) == Ok(cfg)

get_validation_type(cfg) == DictIndex(cfg, "CONFIG_TYPE")

get_aggregates(cfg) ==
    OrElse(DictGet(cfg, "CONFIG_AGGREGATES"), Ok(List(<<>>)))

get_query_groups(cfg) ==
    OrElse(DictGet(cfg, "CONFIG_GROUPED_COLUMNS"), Ok(List(<<>>)))

get_source_schema(cfg) == DictIndex(cfg, "CONFIG_SCHEMA_NAME")

get_source_table(cfg) == DictIndex(cfg, "CONFIG_TABLE_NAME")

\* faulty variant: the explicit target schema is ignored
TargetSchemaAlwaysSource(cfg) == DictIndex(cfg, "CONFIG_SCHEMA_NAME")

get_target_schema(cfg) ==
    OrElse(DictGet(cfg, "CONFIG_TARGET_SCHEMA_NAME"),
           DictIndex(cfg, "CONFIG_SCHEMA_NAME"))

get_target_table(cfg) ==
    OrElse(DictGet(cfg, "CONFIG_TARGET_TABLE_NAME"),
           DictIndex(cfg, "CONFIG_TABLE_NAME"))

get_query_limit(cfg) == Ok(DictGet(cfg, "CONFIG_LIMIT"))

----------------------------------------------------------------------------
(* Mutators: the document after the call.                                  *)

\* faulty variant: the new descriptors are put in front of the stored ones
AppendAggregatesInFront(cfg, aggregate_configs) ==
    [cfg EXCEPT !["CONFIG_AGGREGATES"] =
        List(aggregate_configs.v \o get_aggregates(cfg).value.v)]

append_aggregates(cfg, aggregate_configs) ==
    [cfg EXCEPT !["CONFIG_AGGREGATES"] =
        List(get_aggregates(cfg).value.v \o aggregate_configs.v)]

\* faulty variant: the new descriptors replace the stored ones
AppendQueryGroupsOverwriting(cfg, grouped_column_configs) ==
    [cfg EXCEPT !["CONFIG_GROUPED_COLUMNS"] = grouped_column_configs]

append_query_groups(cfg, grouped_column_configs) ==
    [cfg EXCEPT !["CONFIG_GROUPED_COLUMNS"] =
        List(get_query_groups(cfg).value.v \o grouped_column_configs.v)]

----------------------------------------------------------------------------
(* Construction.                                                           *)

\* line 40: the handle bound to self.source_table
BindSourceTable(cfg, sc, tc) ==
    LET name == get_source_table(cfg)
        database == get_source_schema(cfg)
    IN  IF name.raised THEN name
        ELSE IF database.raised THEN database
        ELSE ClientTable(sc, name.value, database.value)

\* line 41: the handle bound to self.target_table
BindTargetTable(cfg, sc, tc) ==
    LET name == get_target_table(cfg)
        database == get_target_schema(cfg)
    IN  IF name.raised THEN name
        ELSE IF database.raised THEN database
        ELSE ClientTable(sc, name.value, database.value)

\* ConfigManager(config, source_client, target_client): the new instance
NewConfigManager(cfg, sc, tc) ==
    LET src == BindSourceTable(cfg, sc, tc)
        tgt == BindTargetTable(cfg, sc, tc)
    IN  IF src.raised THEN src
        ELSE IF tgt.raised THEN tgt
        ELSE Ok([config |-> cfg, source_client |-> sc, target_client |-> tc,
                 source_table |-> src.value, target_table |-> tgt.value])

EmptyDict == [k \in ConfigKeys |-> Absent]

\* the dict literal of build_config_manager, its entries evaluated in order
FactoryConfig(config_type, source_conn, target_conn, table_obj) ==
    LET schema == DictIndex(table_obj, "CONFIG_SCHEMA_NAME")
        table == DictIndex(table_obj, "CONFIG_TABLE_NAME")
        tschema == OrElse(DictGet(table_obj, "CONFIG_TARGET_SCHEMA_NAME"),
                          DictIndex(table_obj, "CONFIG_SCHEMA_NAME"))
        ttable == OrElse(DictGet(table_obj, "CONFIG_TARGET_TABLE_NAME"),
                         DictIndex(table_obj, "CONFIG_TABLE_NAME"))
    IN  IF schema.raised THEN schema
        ELSE IF table.raised THEN table
        ELSE IF tschema.raised THEN tschema
        ELSE IF ttable.raised THEN ttable
        ELSE Ok([EmptyDict EXCEPT
                    !["CONFIG_TYPE"] = config_type,
                    !["CONFIG_SOURCE_CONN"] = source_conn,
                    !["CONFIG_TARGET_CONN"] = target_conn,
                    !["CONFIG_SCHEMA_NAME"] = schema.value,
                    !["CONFIG_TABLE_NAME"] = table.value,
                    !["CONFIG_TARGET_SCHEMA_NAME"] = tschema.value,
                    !["CONFIG_TARGET_TABLE_NAME"] = ttable.value])

build_config_manager(config_type, source_conn, target_conn, sc, tc, table_obj) ==
    LET cfg == FactoryConfig(config_type, source_conn, target_conn, table_obj)
    IN  IF cfg.raised THEN cfg ELSE NewConfigManager(cfg.value, sc, tc)

----------------------------------------------------------------------------
(* Builders.                                                               *)

GroupedColumnConfig(column) ==
    [CONFIG_SOURCE_COLUMN |-> column, CONFIG_TARGET_COLUMN |-> column,
     CONFIG_FIELD_ALIAS |-> column, CONFIG_CAST |-> None]

\* the for loop of build_config_grouped_columns over the remaining names
RECURSIVE GroupedLoop(_, _, _)
GroupedLoop(tbl, columns, grouped_column_configs) ==
    IF columns = <<>> THEN Ok(List(grouped_column_configs))
    ELSE LET column == Head(columns)
         IN  IF ~InList(column, tbl.columns)
             THEN Raise(ValueError("GroupedColumn DNE: " \o tbl.name \o "." \o column))
             ELSE GroupedLoop(tbl, Tail(columns),
                              Append(grouped_column_configs,
                                     GroupedColumnConfig(column)))

\* faulty variant: a name that is no source column is skipped instead of raised on
RECURSIVE GroupedSkipLoop(_, _)
GroupedSkipLoop(tbl, columns) ==
    IF columns = <<>> THEN <<>>
    ELSE (IF InList(Head(columns), tbl.columns)
          THEN <<GroupedColumnConfig(Head(columns))>> ELSE <<>>)
         \o GroupedSkipLoop(tbl, Tail(columns))

GroupedColumnsSkippingMissing(src, grouped_columns) ==
    Ok(List(GroupedSkipLoop(src, grouped_columns)))

build_config_grouped_columns(src, grouped_columns) ==
    GroupedLoop(src, grouped_columns, <<>>)

AggregateConfig(agg_type, column) ==
    [CONFIG_SOURCE_COLUMN |-> column, CONFIG_TARGET_COLUMN |-> column,
     CONFIG_FIELD_ALIAS |-> agg_type \o "__" \o column,
     CONFIG_TYPE |-> agg_type]

\* lines 129-131: the module never imports json, so the name lookup fails
\* whenever the else branch is evaluated
WhitelistColumns(src, arg_value) ==
    IF arg_value = "*" THEN Ok(src.columns) ELSE Raise(NameError("json"))

\* the for loop of build_config_aggregates over the remaining source columns;
\* st carries the descriptors and the log lines emitted so far
RECURSIVE AggregateLoop(_, _, _, _, _, _, _)
AggregateLoop(src, tgt, agg_type, whitelist_columns, supported_types, columns, st) ==
    IF columns = <<>> THEN st
    ELSE LET column == Head(columns)
             rest == Tail(columns)
         IN  IF ~InList(column, whitelist_columns)
             THEN AggregateLoop(src, tgt, agg_type, whitelist_columns,
                                supported_types, rest, st)
             ELSE IF ~InList(column, tgt.columns)
             THEN AggregateLoop(src, tgt, agg_type, whitelist_columns,
                                supported_types, rest,
                                [st EXCEPT !.log = Append(@,
                                    "Skipping Agg " \o agg_type \o ": "
                                    \o src.name \o "." \o column)])
             ELSE IF Truthy(supported_types)
                     /\ src.types[column] \notin supported_types.v
             THEN AggregateLoop(src, tgt, agg_type, whitelist_columns,
                                supported_types, rest, st)
             ELSE AggregateLoop(src, tgt, agg_type, whitelist_columns,
                                supported_types, rest,
                                [st EXCEPT !.configs = Append(@,
                                    AggregateConfig(agg_type, column))])

\* the outcome and the log lines of build_config_aggregates
build_config_aggregates(src, tgt, agg_type, arg_value, supported_types) ==
    LET whitelist_columns == WhitelistColumns(src, arg_value)
    IN  IF whitelist_columns.raised
        THEN [out |-> whitelist_columns, log |-> <<>>]
        ELSE LET st == AggregateLoop(src, tgt, agg_type, whitelist_columns.value,
                                     supported_types, src.columns,
                                     [configs |-> <<>>, log |-> <<>>])
             IN  [out |-> Ok(List(st.configs)), log |-> st.log]

----------------------------------------------------------------------------
(* The inputs the calls are made with.                                     *)

\* a document: the required keys, the optional target names, the two
\* descriptor sequences and the row limit
Doc(schema, table, tschema, ttable, shape) ==
    [EmptyDict EXCEPT
        !["CONFIG_TYPE"] = Str("Column"),
        !["CONFIG_SOURCE_CONN"] = Str("conn_src"),
        !["CONFIG_TARGET_CONN"] = Str("conn_tgt"),
        !["CONFIG_SCHEMA_NAME"] = schema,
        !["CONFIG_TABLE_NAME"] = table,
        !["CONFIG_TARGET_SCHEMA_NAME"] = tschema,
        !["CONFIG_TARGET_TABLE_NAME"] = ttable,
        !["CONFIG_AGGREGATES"] = shape.aggregates,
        !["CONFIG_GROUPED_COLUMNS"] = shape.grouped_columns,
        !["CONFIG_LIMIT"] = shape.limit]

\* how a fresh document holds its sequences: keys absent, None, or empty lists
StartShapes ==
    {[aggregates |-> Absent, grouped_columns |-> Absent, limit |-> Absent],
     [aggregates |-> None, grouped_columns |-> List(<<>>), limit |-> PyInt(10)],
     [aggregates |-> List(<<>>), grouped_columns |-> None, limit |-> Absent]}

\* the documents of the full model: one source table, the target schema
\* defaulted or explicit, every start shape
Docs ==
    {Doc(Str("s1"), Str("t1"), ts, Absent, sh) :
        ts \in {Absent, Str("s2")}, sh \in StartShapes}

OptionalNames(S) == {Absent, None, Str("")} \cup {Str(x) : x \in S}

NoSequences ==
    [aggregates |-> Absent, grouped_columns |-> Absent, limit |-> Absent]

\* the documents of the naming model: every way of holding the four names,
\* the required ones possibly missing
AllDocs ==
    {Doc(s, t, ts, tt, NoSequences) :
        s \in {Absent, Str("s1"), Str("s2")},
        t \in {Absent, Str("t1"), Str("t2")},
        ts \in OptionalNames({"s1", "s2"}),
        tt \in OptionalNames({"t1", "t2"})}

\* the documents of the builder model: every source table, the target names
\* defaulted or explicit
BuilderDocs ==
    {Doc(Str(s), Str(t), ts, tt, NoSequences) :
        s \in {"s1", "s2"}, t \in {"t1", "t2"},
        ts \in {Absent, Str("s1"), Str("s2")},
        tt \in {Absent, Str("t1"), Str("t2")}}

\* the table-identity record carrying the names of a document
TableObj(doc) ==
    [EmptyDict EXCEPT
        !["CONFIG_SCHEMA_NAME"] = doc["CONFIG_SCHEMA_NAME"],
        !["CONFIG_TABLE_NAME"] = doc["CONFIG_TABLE_NAME"],
        !["CONFIG_TARGET_SCHEMA_NAME"] = doc["CONFIG_TARGET_SCHEMA_NAME"],
        !["CONFIG_TARGET_TABLE_NAME"] = doc["CONFIG_TARGET_TABLE_NAME"]]

AllClientPairs == Clients \X Clients
CrossClientPairs == {<<"dbA", "dbB">>}

\* the arguments of build_config_aggregates: (agg_type, arg_value, supported_types)
AggTypes == {"sum", "min"}
Selections == {"*", "[\"c\", \"z\"]", "[\"a\", \"b\"]", "[c"}
SupportedTypes ==
    {None, Set({}), Set({"int64"}), Set({"string", "int64"}), Set({"float64"})}
AggregateArgs == AggTypes \X Selections \X SupportedTypes
FewAggregateArgs == {"sum"} \X {"*", "[\"c\", \"z\"]"} \X {None, Set({"int64"})}

\* the arguments of build_config_grouped_columns
GroupedRequests == SeqsUpTo({"a", "b", "z"}, MaxReq)
FewGroupedRequests == SeqsUpTo({"a", "z"}, MaxReq)

AggregateLists ==
    SeqsUpTo({AggregateConfig("sum", "a"), AggregateConfig("min", "b")}, MaxReq)
GroupedLists ==
    SeqsUpTo({GroupedColumnConfig("a"), GroupedColumnConfig("b")}, MaxReq)

\* the number of descriptors the document stores
Stored(cfg) ==
    Len(get_aggregates(cfg).value.v) + Len(get_query_groups(cfg).value.v)

----------------------------------------------------------------------------
(* The state machine: one ConfigManager, from construction on.             *)

Call(op, args, out) == [op |-> op, args |-> args, out |-> out, log |-> <<>>]

Init ==
    /\ live = FALSE
    /\ config = None
    /\ source_client = None
    /\ target_client = None
    /\ source_table = Unbound
    /\ target_table = Unbound
    /\ result = Call("none", <<>>, Ok(None))
    /\ appended = [aggregates |-> <<>>, grouped_columns |-> <<>>]

\* the instance the constructor or the factory returned becomes the state;
\* a raised exception leaves no instance
Bind(op, args, out) ==
    /\ result' = Call(op, args, IF out.raised THEN out ELSE Ok(None))
    /\ UNCHANGED appended
    /\ IF out.raised
       THEN UNCHANGED <<live, config, source_client, target_client,
                        source_table, target_table>>
       ELSE /\ live' = TRUE
            /\ config' = out.value.config
            /\ source_client' = out.value.source_client
            /\ target_client' = out.value.target_client
            /\ source_table' = out.value.source_table
            /\ target_table' = out.value.target_table

\* one construction per run: a failed construction ends it
Construct(D, P) ==
    /\ ~live /\ result.op = "none"
    /\ \E cfg \in D, p \in P :
        Bind("ConfigManager", <<cfg, p[1], p[2]>>,
             NewConfigManager(cfg, p[1], p[2]))

BuildConfigManager(D, P) ==
    /\ ~live /\ result.op = "none"
    /\ \E doc \in D, p \in P :
        LET table_obj == TableObj(doc)
        IN  Bind("build_config_manager", <<table_obj, p[1], p[2]>>,
                 build_config_manager(Str("GroupedColumn"), Str("conn_src"),
                                      Str("conn_tgt"), p[1], p[2], table_obj))

\* a call that only reads
Getter(op, out) ==
    /\ live
    /\ result' = Call(op, <<>>, out)
    /\ UNCHANGED <<live, config, source_client, target_client,
                   source_table, target_table, appended>>

GetConfig == Getter("get_config", get_config(config))
GetValidationType == Getter("get_validation_type", get_validation_type(config))
GetAggregates == Getter("get_aggregates", get_aggregates(config))
GetQueryGroups == Getter("get_query_groups", get_query_groups(config))
GetSourceSchema == Getter("get_source_schema", get_source_schema(config))
GetSourceTable == Getter("get_source_table", get_source_table(config))
GetTargetSchema == Getter("get_target_schema", get_target_schema(config))
\* faulty variant: the target table key is indexed, with no fallback
GetTargetTableKeyOnly ==
    Getter("get_target_table", DictIndex(config, "CONFIG_TARGET_TABLE_NAME"))

GetTargetTable == Getter("get_target_table", get_target_table(config))
GetQueryLimit == Getter("get_query_limit", get_query_limit(config))

AppendAggregates ==
    /\ live
    /\ \E l \in AggregateLists :
        /\ Stored(config) + Len(l) <= MaxStored
        /\ config' = append_aggregates(config, List(l))
        /\ result' = Call("append_aggregates", <<l>>, Ok(None))
        /\ appended' = [appended EXCEPT !.aggregates = @ \o l]
    /\ UNCHANGED <<live, source_client, target_client, source_table, target_table>>

AppendQueryGroups ==
    /\ live
    /\ \E l \in GroupedLists :
        /\ Stored(config) + Len(l) <= MaxStored
        /\ config' = append_query_groups(config, List(l))
        /\ result' = Call("append_query_groups", <<l>>, Ok(None))
        /\ appended' = [appended EXCEPT !.grouped_columns = @ \o l]
    /\ UNCHANGED <<live, source_client, target_client, source_table, target_table>>

BuildConfigGroupedColumns(R) ==
    /\ live
    /\ \E grouped_columns \in R :
        result' = Call("build_config_grouped_columns", <<grouped_columns>>,
                       build_config_grouped_columns(source_table, grouped_columns))
    /\ UNCHANGED <<live, config, source_client, target_client,
                   source_table, target_table, appended>>

\* faulty variant: the builder stores what it built
BuildAndStoreAggregates(A) ==
    /\ live
    /\ \E a \in A :
        LET r == build_config_aggregates(source_table, target_table,
                                         a[1], a[2], a[3])
        IN  /\ result' = [op |-> "build_config_aggregates", args |-> a,
                          out |-> r.out, log |-> r.log]
            /\ config' = IF r.out.raised THEN config
                         ELSE append_aggregates(config, r.out.value)
    /\ UNCHANGED <<live, source_client, target_client, source_table,
                   target_table, appended>>

BuildConfigAggregates(A) ==
    /\ live
    /\ \E a \in A :
        LET r == build_config_aggregates(source_table, target_table,
                                         a[1], a[2], a[3])
        IN  result' = [op |-> "build_config_aggregates", args |-> a,
                       out |-> r.out, log |-> r.log]
    /\ UNCHANGED <<live, config, source_client, target_client,
                   source_table, target_table, appended>>

\* the full model: every call, on few inputs
Next ==
    \/ Construct(Docs, CrossClientPairs)
    \/ BuildConfigManager(Docs, CrossClientPairs)
    \/ GetConfig
    \/ GetValidationType
    \/ GetAggregates
    \/ GetQueryGroups
    \/ GetSourceSchema
    \/ GetSourceTable
    \/ GetTargetSchema
    \/ GetTargetTable
    \/ GetQueryLimit
    \/ AppendAggregates
    \/ AppendQueryGroups
    \/ BuildConfigGroupedColumns(FewGroupedRequests)
    \/ BuildConfigAggregates(FewAggregateArgs)

Spec == Init /\ [][Next]_vars

\* the naming model: construction from any document, then the four name getters
NextNames ==
    \/ Construct(AllDocs, AllClientPairs)
    \/ BuildConfigManager(AllDocs, AllClientPairs)
    \/ GetSourceSchema
    \/ GetSourceTable
    \/ GetTargetSchema
    \/ GetTargetTable

SpecNames == Init /\ [][NextNames]_vars

\* the builder model: construction over every table and client pair, then
\* the two builders on every argument
NextBuilders ==
    \/ Construct(BuilderDocs, AllClientPairs)
    \/ BuildConfigManager(BuilderDocs, AllClientPairs)
    \/ BuildConfigGroupedColumns(GroupedRequests)
    \/ BuildConfigAggregates(AggregateArgs)

SpecBuilders == Init /\ [][NextBuilders]_vars

----------------------------------------------------------------------------
(* Vocabulary of the properties.                                           *)

Builders == {"build_config_grouped_columns", "build_config_aggregates"}

Called(op) == live /\ result.op = op

\* the table the target client resolves for the document's target names
TargetSide ==
    ClientTable(target_client, get_target_table(config).value,
                get_target_schema(config).value)

\* the table the source client resolves for the document's source names
SourceSide ==
    ClientTable(source_client, get_source_table(config).value,
                get_source_schema(config).value)

\* a target name counts as explicit when the key is set and not empty
Explicit(d, key) == d[key] \notin {Absent, None, Str("")}

Defaulted(d, tkey, skey) == IF Explicit(d, tkey) THEN d[tkey] ELSE d[skey]

\* the column names an explicit selection text lists
WellFormedSelections == {"[\"c\", \"z\"]", "[\"a\", \"b\"]"}

SelectionNames(arg_value) ==
    CASE arg_value = "[\"c\", \"z\"]" -> {"c", "z"}
      [] arg_value = "[\"a\", \"b\"]" -> {"a", "b"}
      [] OTHER -> {}

\* one aggregate descriptor per column of columns that is in keep, in order
RECURSIVE DescriptorsOf(_, _, _)
DescriptorsOf(columns, keep, agg_type) ==
    IF columns = <<>> THEN <<>>
    ELSE (IF Head(columns) \in keep
          THEN <<[CONFIG_SOURCE_COLUMN |-> Head(columns),
                  CONFIG_TARGET_COLUMN |-> Head(columns),
                  CONFIG_FIELD_ALIAS |-> agg_type \o "__" \o Head(columns),
                  CONFIG_TYPE |-> agg_type]>>
          ELSE <<>>)
         \o DescriptorsOf(Tail(columns), keep, agg_type)

ColumnSet(columns) == {columns[i] : i \in 1..Len(columns)}

IsPrefix(s, t) == Len(s) <= Len(t) /\ SubSeq(t, 1, Len(s)) = s

\* the keys no operation may change
FixedKeys == {"CONFIG_TYPE", "CONFIG_SOURCE_CONN", "CONFIG_TARGET_CONN",
              "CONFIG_SCHEMA_NAME", "CONFIG_TABLE_NAME",
              "CONFIG_TARGET_SCHEMA_NAME", "CONFIG_TARGET_TABLE_NAME",
              "CONFIG_LIMIT"}

----------------------------------------------------------------------------
(* C1.  Every descriptor build_config_aggregates returns names a column    *)
(* of the source table and of the target table and, when a supported-types *)
(* set was supplied (any set, the empty one included), a column whose      *)
(* source type is in that set.  Stated here against the handles the        *)
(* instance holds; it fails for the supplied empty set, which line 139     *)
(* treats like no set at all.                                              *)

C1_DescriptorsEligible ==
    Called("build_config_aggregates") /\ ~result.out.raised =>
        \A i \in 1..Len(result.out.value.v) :
            LET column == result.out.value.v[i].CONFIG_SOURCE_COLUMN
                supported_types == result.args[3]
            IN  /\ InList(column, source_table.columns)
                /\ InList(column, target_table.columns)
                /\ supported_types # None =>
                      source_table.types[column] \in supported_types.v

\* what the code does guarantee: the same, for a set that is not empty
AggregatesEligibleForNonEmptySet ==
    Called("build_config_aggregates") /\ ~result.out.raised =>
        \A i \in 1..Len(result.out.value.v) :
            LET column == result.out.value.v[i].CONFIG_SOURCE_COLUMN
                supported_types == result.args[3]
            IN  /\ InList(column, source_table.columns)
                /\ InList(column, target_table.columns)
                /\ Truthy(supported_types) =>
                      source_table.types[column] \in supported_types.v

(* C2.  With selection "*" and no type whitelist build_config_aggregates   *)
(* returns exactly one descriptor per column present in both the source    *)
(* and the target schema, in source column order, with alias               *)
(* "{agg_type}__{column}".  The target schema is the table of the target   *)
(* client; the claim is made where that table exists.                      *)

C2_WildcardAllShared ==
    /\ Called("build_config_aggregates")
    /\ result.args[2] = "*" /\ result.args[3] = None
    /\ ~TargetSide.raised
    => result.out =
         Ok(List(DescriptorsOf(source_table.columns,
                               ColumnSet(TargetSide.value.columns),
                               result.args[1])))

\* what the code does guarantee: the same against the handle it bound
WildcardAllSharedWithBoundHandle ==
    /\ Called("build_config_aggregates")
    /\ result.args[2] = "*" /\ result.args[3] = None
    => result.out =
         Ok(List(DescriptorsOf(source_table.columns,
                               ColumnSet(target_table.columns),
                               result.args[1])))

(* C3.  build_config_grouped_columns is all-or-nothing.  If a requested    *)
(* name is not a source column it raises the error naming the source table *)
(* and the first such name and returns nothing; otherwise it returns one   *)
(* descriptor per requested name, in request order, duplicates kept, with  *)
(* source = target = alias = the name and no cast.  The target table plays *)
(* no part.  (ColumnNotFoundError is Python's ValueError with the message  *)
(* "GroupedColumn DNE: <table>.<column>".)                                 *)

C3_GroupedAllOrNothing ==
    Called("build_config_grouped_columns") =>
        LET request == result.args[1]
            missing == {i \in 1..Len(request) :
                            request[i] \notin ColumnSet(source_table.columns)}
        IN  IF missing # {}
            THEN LET first == CHOOSE i \in missing : \A j \in missing : i <= j
                 IN  /\ result.out.raised
                     /\ result.out.value = None
                     /\ result.out.exc =
                          [type |-> "ValueError",
                           msg |-> "GroupedColumn DNE: " \o source_table.name
                                   \o "." \o request[first]]
            ELSE /\ ~result.out.raised
                 /\ Len(result.out.value.v) = Len(request)
                 /\ \A i \in 1..Len(request) :
                        result.out.value.v[i] =
                            [CONFIG_SOURCE_COLUMN |-> request[i],
                             CONFIG_TARGET_COLUMN |-> request[i],
                             CONFIG_FIELD_ALIAS |-> request[i],
                             CONFIG_CAST |-> None]

\* a request whose first name is a source column and whose second is not
C3_Witness ==
    /\ Called("build_config_grouped_columns")
    /\ Len(result.args[1]) = 2
    /\ InList(result.args[1][1], source_table.columns)
    /\ ~InList(result.args[1][2], source_table.columns)
    /\ result.out.raised

\* a request with a duplicate of a column the target table lacks succeeds
GroupedDuplicateOffTarget ==
    /\ Called("build_config_grouped_columns")
    /\ ~result.out.raised
    /\ Len(result.args[1]) = 2
    /\ result.args[1][1] = result.args[1][2]
    /\ ~InList(result.args[1][1], target_table.columns)

(* C4.  get_target_schema() returns the explicit target schema when it is  *)
(* set and not empty and the source schema otherwise, and get_target_table *)
(* likewise, on a document passed to the constructor and on one the        *)
(* factory derived, there also measured against the table-identity record. *)

C4_TargetDefaulting ==
    /\ Called("get_target_schema") =>
          /\ result.out = Ok(Defaulted(config, "CONFIG_TARGET_SCHEMA_NAME",
                                       "CONFIG_SCHEMA_NAME"))
          /\ ~Explicit(config, "CONFIG_TARGET_SCHEMA_NAME") =>
                result.out = get_source_schema(config)
    /\ Called("get_target_table") =>
          /\ result.out = Ok(Defaulted(config, "CONFIG_TARGET_TABLE_NAME",
                                       "CONFIG_TABLE_NAME"))
          /\ ~Explicit(config, "CONFIG_TARGET_TABLE_NAME") =>
                result.out = get_source_table(config)
    /\ Called("build_config_manager") =>
          LET table_obj == result.args[1]
          IN  /\ get_source_schema(config) = Ok(table_obj["CONFIG_SCHEMA_NAME"])
              /\ get_source_table(config) = Ok(table_obj["CONFIG_TABLE_NAME"])
              /\ get_target_schema(config) =
                    Ok(Defaulted(table_obj, "CONFIG_TARGET_SCHEMA_NAME",
                                 "CONFIG_SCHEMA_NAME"))
              /\ get_target_table(config) =
                    Ok(Defaulted(table_obj, "CONFIG_TARGET_TABLE_NAME",
                                 "CONFIG_TABLE_NAME"))

\* an explicit target schema that differs from the source schema is returned
C4_Witness ==
    /\ Called("get_target_schema")
    /\ Explicit(config, "CONFIG_TARGET_SCHEMA_NAME")
    /\ config["CONFIG_TARGET_SCHEMA_NAME"] # config["CONFIG_SCHEMA_NAME"]
    /\ ~Explicit(config, "CONFIG_TARGET_TABLE_NAME")
    /\ result.out.value = config["CONFIG_TARGET_SCHEMA_NAME"]

\* the factory was given a record with an empty target table name
FactoryDefaultedFromRecord ==
    /\ Called("build_config_manager")
    /\ result.args[1]["CONFIG_TARGET_TABLE_NAME"] = Str("")
    /\ Explicit(result.args[1], "CONFIG_TARGET_SCHEMA_NAME")

(* C5.  The appends accumulate: on a document that started with its        *)
(* sequence absent or empty, get_aggregates() returns the concatenation,   *)
(* in call order, of every list append_aggregates was given, and           *)
(* get_query_groups() that of append_query_groups; nothing is dropped,     *)
(* reordered or deduplicated.                                              *)

C5_AppendsConcatenate ==
    live =>
        /\ get_aggregates(config) = Ok(List(appended.aggregates))
        /\ get_query_groups(config) = Ok(List(appended.grouped_columns))
        /\ Called("get_aggregates") =>
              result.out = Ok(List(appended.aggregates))
        /\ Called("get_query_groups") =>
              result.out = Ok(List(appended.grouped_columns))

\* a second append added a duplicate of what was stored
C5_Witness ==
    /\ Called("append_aggregates")
    /\ Len(result.args[1]) = 1
    /\ Len(appended.aggregates) = 2
    /\ appended.aggregates[1] = appended.aggregates[2]
    /\ config["CONFIG_AGGREGATES"] = List(appended.aggregates)

(* C6.  For a well-formed explicit selection build_config_aggregates does  *)
(* not fail and returns the descriptors of the source columns the          *)
(* selection names that are in the target table and type-eligible, in      *)
(* source order; the builder fails only on a malformed selection, with the *)
(* parse error.  It fails on the code: json is not imported, so every      *)
(* selection other than "*" raises NameError.                              *)

C6_ExplicitSelectionBuilds ==
    Called("build_config_aggregates") =>
        /\ result.args[2] \in WellFormedSelections =>
              /\ ~result.out.raised
              /\ result.out.value.tag = "list"
              /\ \A i \in 1..Len(result.out.value.v) :
                    result.out.value.v[i].CONFIG_SOURCE_COLUMN
                        \in SelectionNames(result.args[2])
        /\ result.out.raised =>
              /\ result.args[2] \notin WellFormedSelections \cup {"*"}
              /\ result.out.exc.type = "JSONDecodeError"

(* C7.  The builders have no hidden effect.  A builder call, returning or  *)
(* raising, leaves the document and both table handles as they were; two   *)
(* calls in a row with the same arguments have the same outcome; and a     *)
(* stored sequence changes only in a step of its own append.               *)

C7_BuildersPure ==
    [][/\ result'.op \in Builders =>
            /\ config' = config
            /\ source_table' = source_table
            /\ target_table' = target_table
            /\ source_client' = source_client
            /\ target_client' = target_client
       /\ (result.op \in Builders /\ result'.op = result.op
              /\ result'.args = result.args) =>
            (result'.out = result.out /\ result'.log = result.log)
       /\ (live /\ config'["CONFIG_AGGREGATES"] # config["CONFIG_AGGREGATES"]) =>
            result'.op = "append_aggregates"
       /\ (live /\ config'["CONFIG_GROUPED_COLUMNS"]
                      # config["CONFIG_GROUPED_COLUMNS"]) =>
            result'.op = "append_query_groups"]_vars

\* a builder raised on a document that already stores descriptors
C7_Witness ==
    /\ result.op \in Builders
    /\ live /\ result.out.raised
    /\ Len(appended.aggregates) >= 1
    /\ Len(appended.grouped_columns) >= 1

(* C8.  get_target_schema() and get_target_table() never raise: on every   *)
(* instance they return a value, which is the source value when the        *)
(* target key is absent, None or empty.                                    *)

C8_TargetGettersTotal ==
    /\ Called("get_target_schema") =>
          /\ ~result.out.raised
          /\ result.out.value.tag = "str"
          /\ config["CONFIG_TARGET_SCHEMA_NAME"] \in {Absent, None, Str("")} =>
                result.out.value = config["CONFIG_SCHEMA_NAME"]
    /\ Called("get_target_table") =>
          /\ ~result.out.raised
          /\ result.out.value.tag = "str"
          /\ config["CONFIG_TARGET_TABLE_NAME"] \in {Absent, None, Str("")} =>
                result.out.value = config["CONFIG_TABLE_NAME"]

\* the target table key is absent and the target schema key holds None
C8_Witness ==
    /\ Called("get_target_table")
    /\ config["CONFIG_TARGET_TABLE_NAME"] = Absent
    /\ config["CONFIG_TARGET_SCHEMA_NAME"] = None
    /\ ~result.out.raised

(* C9.  The document is append-only.  In every step of a live instance the *)
(* stored aggregates and the stored grouped columns are prefixes of their  *)
(* next values; append_aggregates changes no key but the aggregates,       *)
(* append_query_groups none but the grouped columns; and no step changes   *)
(* the validation type, the connections, the four names or the row limit.  *)

C9_AppendOnly ==
    [][live =>
        /\ IsPrefix(get_aggregates(config).value.v,
                    get_aggregates(config').value.v)
        /\ IsPrefix(get_query_groups(config).value.v,
                    get_query_groups(config').value.v)
        /\ result'.op = "append_aggregates" =>
              \A k \in ConfigKeys \ {"CONFIG_AGGREGATES"} : config'[k] = config[k]
        /\ result'.op = "append_query_groups" =>
              \A k \in ConfigKeys \ {"CONFIG_GROUPED_COLUMNS"} :
                  config'[k] = config[k]
        /\ \A k \in FixedKeys : config'[k] = config[k]]_vars

\* both sequences were appended to, the aggregates twice
C9_Witness ==
    /\ Called("append_aggregates")
    /\ Len(result.args[1]) = 1
    /\ Len(appended.aggregates) = 2
    /\ Len(appended.grouped_columns) >= 1
    /\ config["CONFIG_LIMIT"] = PyInt(10)

(* C10.  Construction binds each handle to its own side: source_table is   *)
(* the table the source client resolves for the source names, target_table *)
(* the table the target client resolves for the target names.  It fails on *)
(* the code: line 41 asks the source client for the target table.          *)

C10_HandlesBoundPerSide ==
    live =>
        /\ Ok(source_table) = SourceSide
        /\ Ok(target_table) = TargetSide

\* what the code does: both handles come from the source client
BothHandlesFromSourceClient ==
    live =>
        /\ Ok(source_table) = SourceSide
        /\ Ok(target_table) =
              ClientTable(source_client, get_target_table(config).value,
                          get_target_schema(config).value)

====
